---- MODULE Spec2Model ----
(***************************************************************************)
(* Model of app.py (Daily AI Learning Generator): the JSON extraction of   *)
(* extract_json_from_response, the orchestration of generate_lesson and    *)
(* the session state that main keeps across script runs.                   *)
(*                                                                         *)
(* Text is a sequence of symbols.  A symbol stands for one character       *)
(* ("{", "}", "[", "]", ",", ":", the double quote, a blank), for a run of *)
(* letters without braces, quotes or blanks (a word such as "title"), or   *)
(* for one integer literal ("0" .. "9").  JSON is modelled with objects,   *)
(* arrays, strings without escapes and non-negative integers; true, false, *)
(* null, fractions and signs are left out.                                 *)
(***************************************************************************)
EXTENDS Integers, Sequences, FiniteSets, TLC

VARIABLES
    text,       \* raw text handed to extract_json_from_response
    sent,       \* how that text was put together: prefix, body, suffix
    outcome,    \* what the call did: return value or exception, st output
    session,    \* st.session_state: api_key, current_lesson, ...
    widgets,    \* sidebar widgets: the key typed, the category chosen
    service,    \* what the completion service answers to the next requests
    run         \* what the last script run did

vars == <<text, sent, outcome, session, widgets, service, run>>

(***************************************************************************)
(* Bounds                                                                  *)
(***************************************************************************)
MaxAffix == 2       \* longest text put before or after a body
MaxAnswer == 5      \* largest correctAnswer the service sends
MaxOptions == 4     \* most options the service sends

(***************************************************************************)
(* Symbols                                                                 *)
(***************************************************************************)
WS == " "
Quote == "\""
DigitSeq == <<"0", "1", "2", "3", "4", "5", "6", "7", "8", "9">>
Digits == {DigitSeq[i] : i \in 1..Len(DigitSeq)}
DigitVal(d) == (CHOOSE i \in 1..Len(DigitSeq) : DigitSeq[i] = d) - 1

(***************************************************************************)
(* Python values.  Every value is a record tagged with its type, so that   *)
(* values of different types are never compared field by field.           *)
(***************************************************************************)
None == [t |-> "none", v |-> 0]
Num(n) == [t |-> "num", v |-> n]
Str(s) == [t |-> "str", v |-> s]
Arr(s) == [t |-> "arr", v |-> s]
Obj(f) == [t |-> "obj", v |-> f]
EmptyMap == [k \in {} |-> None]

(***************************************************************************)
(* str.strip, str.find, str.rfind and slicing, with Python's 0-based       *)
(* indices and -1 for "not found".                                         *)
(***************************************************************************)
RECURSIVE lstrip(_)
lstrip(s) ==
    IF s # <<>> /\ Head(s) = WS THEN lstrip(Tail(s)) ELSE s

RECURSIVE rstrip(_)
rstrip(s) ==
    IF s # <<>> /\ s[Len(s)] = WS THEN rstrip(SubSeq(s, 1, Len(s) - 1)) ELSE s

strip(s) == rstrip(lstrip(s))

find(s, c) ==
    IF \E i \in 1..Len(s) : s[i] = c
    THEN (CHOOSE i \in 1..Len(s) : s[i] = c /\ \A j \in 1..(i - 1) : s[j] # c) - 1
    ELSE -1

rfind(s, c) ==
    IF \E i \in 1..Len(s) : s[i] = c
    THEN (CHOOSE i \in 1..Len(s) : s[i] = c /\ \A j \in (i + 1)..Len(s) : s[j] # c) - 1
    ELSE -1

\* a slice bound as Python reads it: a negative bound counts from the end,
\* and a bound outside the text is moved to its nearest end
slice_bound(i, n) ==
    IF i < 0 THEN (IF i + n < 0 THEN 0 ELSE i + n)
    ELSE IF i > n THEN n ELSE i

\* s[a:b] (empty when the upper bound is not beyond the lower)
slice(s, a, b) ==
    IF slice_bound(b, Len(s)) <= slice_bound(a, Len(s)) THEN <<>>
    ELSE SubSeq(s, slice_bound(a, Len(s)) + 1, slice_bound(b, Len(s)))

(***************************************************************************)
(* json.loads on symbols: objects, arrays, strings without escapes,        *)
(* integer literals, blanks between tokens.  A result is [ok, val, pos],   *)
(* pos the 1-based position after the value.                               *)
(***************************************************************************)
Fail == [ok |-> FALSE, val |-> None, pos |-> 0]
Ok(v, p) == [ok |-> TRUE, val |-> v, pos |-> p]

RECURSIVE SkipWs(_, _)
SkipWs(s, i) ==
    IF i <= Len(s) /\ s[i] = WS THEN SkipWs(s, i + 1) ELSE i

RECURSIVE ScanString(_, _)
ScanString(s, i) ==
    IF i > Len(s) THEN 0
    ELSE IF s[i] = Quote THEN i
    ELSE ScanString(s, i + 1)

\* s[i] is the opening quote
ParseString(s, i) ==
    LET j == ScanString(s, i + 1)
    IN  IF j = 0 THEN Fail ELSE Ok(Str(SubSeq(s, i + 1, j - 1)), j + 1)

RECURSIVE ParseValue(_, _)
RECURSIVE ParseElements(_, _, _)
RECURSIVE ParseMembers(_, _, _)

ParseValue(s, i0) ==
    LET i == SkipWs(s, i0)
    IN  IF i > Len(s) THEN Fail
        ELSE IF s[i] = "{" THEN
            LET j == SkipWs(s, i + 1)
            IN  IF j <= Len(s) /\ s[j] = "}" THEN Ok(Obj(EmptyMap), j + 1)
                ELSE ParseMembers(s, j, EmptyMap)
        ELSE IF s[i] = "[" THEN
            LET j == SkipWs(s, i + 1)
            IN  IF j <= Len(s) /\ s[j] = "]" THEN Ok(Arr(<<>>), j + 1)
                ELSE ParseElements(s, j, <<>>)
        ELSE IF s[i] = Quote THEN ParseString(s, i)
        ELSE IF s[i] \in Digits THEN Ok(Num(DigitVal(s[i])), i + 1)
        ELSE Fail

\* elements of an array from position i on, acc the elements read so far
ParseElements(s, i, acc) ==
    LET v == ParseValue(s, i)
    IN  IF ~v.ok THEN Fail
        ELSE LET d == SkipWs(s, v.pos)
             IN  IF d > Len(s) THEN Fail
                 ELSE IF s[d] = "," THEN ParseElements(s, d + 1, Append(acc, v.val))
                 ELSE IF s[d] = "]" THEN Ok(Arr(Append(acc, v.val)), d + 1)
                 ELSE Fail

\* members of an object from position i on (blanks skipped), acc the members
\* read so far; a repeated key keeps its last value
ParseMembers(s, i, acc) ==
    IF i > Len(s) \/ s[i] # Quote THEN Fail
    ELSE LET k == ParseString(s, i)
         IN  IF ~k.ok THEN Fail
             ELSE LET c == SkipWs(s, k.pos)
                  IN  IF c > Len(s) \/ s[c] # ":" THEN Fail
                      ELSE LET v == ParseValue(s, c + 1)
                           IN  IF ~v.ok THEN Fail
                               ELSE LET key == k.val.v
                                        acc2 == [x \in DOMAIN acc \cup {key} |->
                                                    IF x = key THEN v.val ELSE acc[x]]
                                        d == SkipWs(s, v.pos)
                                    IN  IF d > Len(s) THEN Fail
                                        ELSE IF s[d] = "," THEN
                                            ParseMembers(s, SkipWs(s, d + 1), acc2)
                                        ELSE IF s[d] = "}" THEN Ok(Obj(acc2), d + 1)
                                        ELSE Fail

\* json.loads(s): [ok |-> TRUE, val] or [ok |-> FALSE] for json.JSONDecodeError
json_loads(s) ==
    LET r == ParseValue(s, 1)
    IN  IF r.ok /\ SkipWs(s, r.pos) = Len(s) + 1
        THEN [ok |-> TRUE, val |-> r.val]
        ELSE [ok |-> FALSE, val |-> None]

(***************************************************************************)
(* What the completion service may send back.  The lesson the template     *)
(* asks for has the six top-level keys; "exercise" holds the options and   *)
(* the index of the correct one.  Serialize writes a value as JSON text,   *)
(* compact or with a blank after every ":" and ",".                        *)
(***************************************************************************)
Key(w) == <<w>>

KeyOrder ==
    <<Key("title"), Key("category"), Key("concept"), Key("exercise"),
      Key("options"), Key("correctAnswer"),
      Key("practicalApplication"), Key("reflection")>>

Options(n) == Arr([i \in 1..n |-> Str(<<"w">>)])

Exercise(n, ca) ==
    Obj([k \in {Key("options"), Key("correctAnswer")} |->
            IF k = Key("options") THEN Options(n) ELSE Num(ca)])

TemplateLesson(n, ca) ==
    Obj([k \in {Key("title"), Key("category"), Key("concept"), Key("exercise"),
                Key("practicalApplication"), Key("reflection")} |->
            IF k = Key("title") THEN Str(<<"w">>)
            ELSE IF k = Key("category") THEN Str(<<"technology">>)
            ELSE IF k = Key("exercise") THEN Exercise(n, ca)
            ELSE Obj(EmptyMap)])

Without(o, key) == Obj([k \in DOMAIN o.v \ {key} |-> o.v[k]])

Sep(sp) == IF sp THEN <<WS>> ELSE <<>>

RECURSIVE Serialize(_, _)
RECURSIVE SerializeElements(_, _, _)
RECURSIVE SerializeMembers(_, _, _)

Serialize(v, sp) ==
    IF v.t = "num" THEN <<DigitSeq[v.v + 1]>>
    ELSE IF v.t = "str" THEN <<Quote>> \o v.v \o <<Quote>>
    ELSE IF v.t = "arr" THEN <<"[">> \o SerializeElements(v.v, 1, sp) \o <<"]">>
    ELSE <<"{">>
         \o SerializeMembers(v.v, SelectSeq(KeyOrder, LAMBDA k : k \in DOMAIN v.v), sp)
         \o <<"}">>

SerializeElements(s, i, sp) ==
    IF i > Len(s) THEN <<>>
    ELSE Serialize(s[i], sp)
         \o (IF i < Len(s) THEN <<",">> \o Sep(sp) ELSE <<>>)
         \o SerializeElements(s, i + 1, sp)

SerializeMembers(f, keys, sp) ==
    IF keys = <<>> THEN <<>>
    ELSE <<Quote>> \o Head(keys) \o <<Quote, ":">> \o Sep(sp)
         \o Serialize(f[Head(keys)], sp)
         \o (IF Len(keys) > 1 THEN <<",">> \o Sep(sp) ELSE <<>>)
         \o SerializeMembers(f, Tail(keys), sp)

\* lessons with every required key; the answer index may be out of range
FullLessons ==
    {TemplateLesson(MaxOptions, ca) :
        ca \in {0, MaxOptions - 1, MaxOptions, MaxAnswer}}

\* objects that parse but lack a required key
PartialLessons ==
    {Without(TemplateLesson(MaxOptions, 0), k) :
        k \in {Key("title"), Key("category"), Key("concept"), Key("exercise"),
               Key("practicalApplication"), Key("reflection")}}
    \cup {Obj(EmptyMap), Obj([k \in {Key("title")} |-> Str(<<"X">>)])}

TitleOnly == Serialize(Obj([k \in {Key("title")} |-> Str(<<"X">>)]), FALSE)

\* texts with braces that are not JSON
MalformedTexts ==
    <<TitleOnly \o <<WS, "w", WS>> \o TitleOnly,             \* two blocks, prose between
      SubSeq(Serialize(TemplateLesson(MaxOptions, 0), FALSE), 1,
             Len(Serialize(TemplateLesson(MaxOptions, 0), FALSE)) - 1), \* cut short
      <<"{", Quote, "title", Quote, ":", Quote, "X", Quote, ",", "}">>,  \* trailing comma
      <<"{", "title", ":", "w", "}">>,                                   \* bare words
      <<"{", Quote, "title", Quote, ":", Quote, "X", "}">>,              \* open string
      <<"}", WS, "{">>>>                                                 \* closing first

Bodies ==
    {[kind |-> "full", val |-> v, sp |-> sp, n |-> 0] : v \in FullLessons, sp \in BOOLEAN}
    \cup {[kind |-> "partial", val |-> v, sp |-> FALSE, n |-> 0] : v \in PartialLessons}
    \cup {[kind |-> "malformed", val |-> None, sp |-> FALSE, n |-> i] :
            i \in 1..Len(MalformedTexts)}
    \cup {[kind |-> "none", val |-> None, sp |-> FALSE, n |-> 0]}

BodyText(b) ==
    IF b.kind \in {"full", "partial"} THEN Serialize(b.val, b.sp)
    ELSE IF b.kind = "malformed" THEN MalformedTexts[b.n]
    ELSE <<>>

AffixSymbols == {"{", "}", WS, "w"}

RECURSIVE SeqsUpTo(_, _)
SeqsUpTo(S, n) ==
    IF n = 0 THEN {<<>>}
    ELSE LET shorter == SeqsUpTo(S, n - 1)
         IN  shorter \cup {Append(s, x) : s \in shorter, x \in S}

Affixes == SeqsUpTo(AffixSymbols, MaxAffix)

(***************************************************************************)
(* extract_json_from_response                                              *)
(***************************************************************************)
Pending == [kind |-> "pending", exc |-> "", msg |-> "", value |-> None, shown |-> <<>>]
Return(v) == [kind |-> "return", exc |-> "", msg |-> "", value |-> v, shown |-> <<>>]
Raise(exc, msg, shown) ==
    [kind |-> "raise", exc |-> exc, msg |-> msg, value |-> None, shown |-> shown]

NoJsonMsg == "No valid JSON structure found in response"
MissingKeysMsg == "Missing required keys in lesson content"

required_keys ==
    <<Key("title"), Key("category"), Key("concept"), Key("exercise"),
      Key("practicalApplication"), Key("reflection")>>

\* faulty variant: "and" for "or"
no_json_structure_and(start, end) == start = -1 /\ end = -1

no_json_structure(start, end) == start = -1 \/ end = -1

\* faulty variant: the closing brace left out of the slice
json_substring_short(t, start, end) == slice(t, start, end)

json_substring(t, start, end) == slice(t, start, end + 1)

\* faulty variant: any() for all()
has_required_keys_any(data) ==
    \E i \in 1..Len(required_keys) : required_keys[i] \in DOMAIN data.v

\* all(key in data for key in required_keys); data is a dict whenever text
\* that starts with "{" has parsed
has_required_keys(data) ==
    \A i \in 1..Len(required_keys) : required_keys[i] \in DOMAIN data.v

\* faulty variant: the whole text shown in place of the substring tried
parse_diagnostics_text(t, json_str) ==
    <<[fn |-> "error", arg |-> <<"Failed to parse JSON response">>],
      [fn |-> "code", arg |-> t]>>

\* st.error(...) and st.code(json_str) of the except clause
parse_diagnostics(t, json_str) ==
    <<[fn |-> "error", arg |-> <<"Failed to parse JSON response">>],
      [fn |-> "code", arg |-> json_str]>>

extract_json_from_response(raw) ==
    LET t == strip(raw)
        start == find(t, "{")
        end == rfind(t, "}")
    IN  IF no_json_structure(start, end) THEN Raise("ValueError", NoJsonMsg, <<>>)
        ELSE LET json_str == json_substring(t, start, end)
                 data == json_loads(json_str)
             IN  IF ~data.ok
                 THEN Raise("JSONDecodeError", "JSONDecodeError",
                            parse_diagnostics(t, json_str))
                 ELSE IF ~has_required_keys(data.val)
                 THEN Raise("ValueError", MissingKeysMsg, <<>>)
                 ELSE Return(data.val)

(***************************************************************************)
(* Session state and widgets                                               *)
(***************************************************************************)
CATEGORIES == {"science", "technology", "psychology", "history"}

\* API keys as text: none, one with the provider's prefix, one without
ApiKeys == {<<>>, <<"gsk_", "k">>, <<"sk_", "k">>}
startswith_gsk(k) == Len(k) >= 1 /\ k[1] = "gsk_"

initialize_session_state ==
    [api_key |-> <<>>, current_lesson |-> None, selected_answer |-> None,
     reflection_text |-> <<>>]

InitWidgets == [api_key |-> <<>>, selected_category |-> "random"]

\* bool(v) of Python, for the values a lesson can be
truthy(v) ==
    IF v.t = "none" THEN FALSE
    ELSE IF v.t = "obj" THEN DOMAIN v.v # {}
    ELSE IF v.t = "num" THEN v.v # 0
    ELSE v.v # <<>>

(***************************************************************************)
(* The completion service: its answer to a topic request and to a lesson   *)
(* request.  An answer is an error (transport, authentication, rate limit) *)
(* or a text; kind and val say what a lesson text was written from.        *)
(***************************************************************************)
ApiError == [ok |-> FALSE, text |-> <<>>, kind |-> "error", val |-> None]
Reply(txt, kind, val) == [ok |-> TRUE, text |-> txt, kind |-> kind, val |-> val]

TopicReplies ==
    {ApiError, Reply(<<"w">>, "topic", None), Reply(<<WS, "w", WS, "w", WS>>, "topic", None)}

LessonReplies ==
    {ApiError,
     Reply(Serialize(TemplateLesson(MaxOptions, 0), TRUE), "full",
           TemplateLesson(MaxOptions, 0)),
     Reply(<<"w", WS>> \o Serialize(TemplateLesson(MaxOptions, MaxOptions - 1), FALSE)
           \o <<WS, "w">>, "full", TemplateLesson(MaxOptions, MaxOptions - 1)),
     Reply(<<"w", ":", WS>> \o TitleOnly, "partial", None),
     Reply(<<"w", WS, "w">>, "nobraces", None),
     Reply(MalformedTexts[1], "malformed", None)}

InitService == [topic |-> ApiError, lesson |-> ApiError]

(***************************************************************************)
(* generate_lesson                                                         *)
(***************************************************************************)
\* names bound in the module's namespace when generate_lesson runs: the
\* imports (import streamlit as st, from groq import Groq, import json, ...)
\* and the module's own definitions.  "from groq import Groq" binds Groq and
\* not groq, so the lookup of groq in groq.Groq(api_key=api_key) raises
\* NameError.
ModuleGlobals ==
    {"st", "Groq", "json", "datetime", "random", "time",
     "CATEGORIES", "LESSON_SYSTEM_PROMPT", "LESSON_TEMPLATE",
     "initialize_session_state", "extract_json_from_response",
     "generate_lesson", "display_lesson", "main"}

name_defined(name) == name \in ModuleGlobals

TopicRequest(category) ==
    [kind |-> "topic", category |-> category, topic |-> <<>>, max_tokens |-> 50]

\* LESSON_TEMPLATE.format(category=category, topic=topic)
LessonRequest(category, topic) ==
    [kind |-> "lesson", category |-> category, topic |-> topic, max_tokens |-> 4500]

St(fn, arg) == [fn |-> fn, arg |-> arg]

\* the body of the try block: the exception it ends with ("" for none), the
\* value it returns, the requests it issued, what it displayed, and
\* response_text if the assignment was reached
Body(exc, msg, value, requests, shown, bound, response_text) ==
    [exc |-> exc, msg |-> msg, value |-> value, requests |-> requests,
     shown |-> shown, bound |-> bound, response_text |-> response_text]

\* lines 147-148, with e the outcome of extract_json_from_response
extracted(e, requests, shown, response_text) ==
    IF e.kind = "raise"
    THEN Body(e.exc, e.msg, None, requests, shown \o e.shown, TRUE, response_text)
    ELSE Body("", "", e.value, requests, shown, TRUE, response_text)

generate_lesson_try(category, api_key, svc) ==
    IF ~name_defined("groq")
    THEN Body("NameError", "name 'groq' is not defined", None, <<>>, <<>>, FALSE, <<>>)
    ELSE LET req1 == TopicRequest(category)
         IN  IF ~svc.topic.ok
             THEN Body("APIError", "APIError", None, <<req1>>, <<>>, FALSE, <<>>)
             ELSE LET topic == strip(svc.topic.text)
                      info == St("info", <<"Generating lesson about:">> \o topic)
                      req2 == LessonRequest(category, topic)
                  IN  IF ~svc.lesson.ok
                      THEN Body("APIError", "APIError", None, <<req1, req2>>,
                                <<info>>, FALSE, <<>>)
                      ELSE extracted(extract_json_from_response(svc.lesson.text),
                                     <<req1, req2>>, <<info>>, svc.lesson.text)

\* faulty variant: except ValueError (json.JSONDecodeError is a ValueError)
except_ValueError(exc) == exc \in {"ValueError", "JSONDecodeError"}

\* except Exception: NameError, ValueError, json.JSONDecodeError and the
\* client's errors are all subclasses of Exception
except_Exception(exc) == TRUE

\* faulty variant: the except clause returns a dict that describes the error
except_return_dict == Obj([k \in {Key("error")} |-> Str(<<"w">>)])

\* return None of the except clause
except_return == None

\* [result, error: the exception caught, escaped: the exception propagated,
\*  requests, shown]
try_except(b) ==
        IF b.exc = ""
        THEN [result |-> b.value, error |-> "", escaped |-> "",
              requests |-> b.requests, shown |-> b.shown]
        ELSE IF except_Exception(b.exc)
        THEN [result |-> except_return, error |-> b.exc, escaped |-> "",
              requests |-> b.requests,
              shown |-> b.shown \o
                  <<St("error", <<"Error details:", b.msg>>),
                    St("error", <<"Response received:">>),
                    St("code", IF b.bound THEN b.response_text
                               ELSE <<"No response received">>)>>]
        ELSE [result |-> None, error |-> "", escaped |-> b.exc,
              requests |-> b.requests, shown |-> b.shown]

generate_lesson(category, api_key, svc) ==
    try_except(generate_lesson_try(category, api_key, svc))

(***************************************************************************)
(* main: one run of the script.  w are the widgets' values, clicked says   *)
(* whether "Generate New Lesson" was pressed, svc is the service and       *)
(* choice the category random.choice picks.                                *)
(***************************************************************************)
\* lines 270-278: the lesson page or the welcome page
View(sess) ==
    IF truthy(sess.current_lesson) THEN "lesson" ELSE "welcome"

RunRecord(action, g, shown, view) ==
    [action |-> action, result |-> g.result, error |-> g.error,
     escaped |-> g.escaped, requests |-> g.requests, shown |-> shown,
     view |-> view]

NotCalled ==
    [result |-> None, error |-> "", escaped |-> "", requests |-> <<>>, shown |-> <<>>]

\* lines 260-267, with g what generate_lesson did
generated(sess1, g, warn) ==
    IF g.escaped # ""
    THEN [session |-> sess1,
          run |-> RunRecord("generate", g,
                     warn \o g.shown \o
                     <<St("error", <<"Failed to generate lesson. Please try again.">>),
                       St("error", <<"Error:", g.escaped>>)>>,
                     View(sess1))]
    ELSE IF truthy(g.result)
    THEN [session |-> [sess1 EXCEPT !.current_lesson = g.result,
                                    !.selected_answer = None,
                                    !.reflection_text = <<>>],
          run |-> RunRecord("generate", g, warn,
                     View([sess1 EXCEPT !.current_lesson = g.result]))]
    ELSE [session |-> sess1,
          run |-> RunRecord("generate", g, warn \o g.shown, View(sess1))]

\* line 256
pick_category(selected_category, choice) ==
    IF selected_category = "random" THEN choice ELSE selected_category

\* lines 236-239
warning(api_key) ==
    IF api_key # <<>> /\ ~startswith_gsk(api_key)
    THEN <<St("warning", <<"API key should start with 'gsk_'">>)>>
    ELSE <<>>

keep_api_key(sess0, api_key) ==
    IF api_key # <<>> THEN [sess0 EXCEPT !.api_key = api_key] ELSE sess0

main(sess0, w, clicked, svc, choice) ==
    IF ~clicked
    THEN [session |-> keep_api_key(sess0, w.api_key),
          run |-> RunRecord("render", NotCalled, warning(w.api_key),
                     View(keep_api_key(sess0, w.api_key)))]
    ELSE IF w.api_key = <<>>
    THEN [session |-> sess0,
          run |-> RunRecord("generate", NotCalled,
                     <<St("error", <<"Please enter your Groq API key first!">>)>>,
                     "none")]
    ELSE generated(keep_api_key(sess0, w.api_key),
                   generate_lesson(pick_category(w.selected_category, choice),
                                   w.api_key, svc),
                   warning(w.api_key))

InitRun == RunRecord("start", NotCalled, <<>>, View(initialize_session_state))

(***************************************************************************)
(* The application: the user types an API key, picks a category or presses *)
(* "Generate New Lesson"; each interaction runs the script once.           *)
(***************************************************************************)
NoSent == [prefix |-> <<>>, body |-> [kind |-> "none", val |-> None, sp |-> FALSE, n |-> 0],
           suffix |-> <<>>]

Init ==
    /\ text = <<>>
    /\ sent = NoSent
    /\ outcome = Pending
    /\ session = initialize_session_state
    /\ widgets = InitWidgets
    /\ service = InitService
    /\ run = InitRun

Ran(m, w, svc) ==
    /\ session' = m.session
    /\ run' = m.run
    /\ widgets' = w
    /\ service' = svc
    /\ UNCHANGED <<text, sent, outcome>>

Script(w, clicked, svc, choice) ==
    Ran(main(session, w, clicked, svc, choice), w, svc)

EnterApiKey ==
    \E k \in ApiKeys :
        /\ k # widgets.api_key
        /\ Script([widgets EXCEPT !.api_key = k], FALSE, service, "science")

SelectCategory ==
    \E c \in CATEGORIES \cup {"random"} :
        /\ c # widgets.selected_category
        /\ Script([widgets EXCEPT !.selected_category = c], FALSE, service, "science")

ClickGenerate ==
    \E t \in TopicReplies, l \in LessonReplies, choice \in CATEGORIES :
        Script(widgets, TRUE, [topic |-> t, lesson |-> l], choice)

\* The option buttons and the reflection box of display_lesson exist only on
\* the lesson page, which is never shown (NoLessonEver below): they are not
\* interactions the user can make.
Next == EnterApiKey \/ SelectCategory \/ ClickGenerate

Spec == Init /\ [][Next]_vars

(***************************************************************************)
(* extract_json_from_response on its own: a text is put together from a    *)
(* prefix, a body and a suffix, and the function is called on it.          *)
(***************************************************************************)
InitExtract ==
    /\ sent \in [prefix : Affixes, body : Bodies, suffix : Affixes]
    /\ text = sent.prefix \o BodyText(sent.body) \o sent.suffix
    /\ outcome = Pending
    /\ session = initialize_session_state
    /\ widgets = InitWidgets
    /\ service = InitService
    /\ run = InitRun

ExtractCall ==
    /\ outcome = Pending
    /\ outcome' = extract_json_from_response(text)
    /\ UNCHANGED <<text, sent, session, widgets, service, run>>

NextExtract == ExtractCall

SpecExtract == InitExtract /\ [][NextExtract]_vars

(***************************************************************************)
(* Properties.  FirstBrace, LastBrace and Bracketed state the claims'      *)
(* "substring from the first { to the last }" on the raw text, apart from  *)
(* the code's own find, rfind and slice.                                   *)
(***************************************************************************)
NoSym(s, c) == \A i \in 1..Len(s) : s[i] # c

FirstBrace(s) ==
    CHOOSE i \in 1..Len(s) : s[i] = "{" /\ NoSym(SubSeq(s, 1, i - 1), "{")

LastBrace(s) ==
    CHOOSE i \in 1..Len(s) : s[i] = "}" /\ NoSym(SubSeq(s, i + 1, Len(s)), "}")

HasBoth(s) == ~NoSym(s, "{") /\ ~NoSym(s, "}")

Bracketed(s) == SubSeq(s, FirstBrace(s), LastBrace(s))

RequiredKeySet ==
    {Key("title"), Key("category"), Key("concept"), Key("exercise"),
     Key("practicalApplication"), Key("reflection")}

Called == outcome # Pending

\* C1 as stated: a text that holds a valid JSON object with all six required
\* keys, with any text before and after it, yields that object unchanged.
C1_Original ==
    (Called /\ sent.body.kind = "full") => outcome = Return(sent.body.val)

\* C1 as amended: a text that holds a valid JSON object with all six required
\* keys, with no "{" in the text before it and no "}" in the text after it,
\* yields that object unchanged.
C1_Amended ==
    (Called /\ sent.body.kind = "full"
        /\ NoSym(sent.prefix, "{") /\ NoSym(sent.suffix, "}"))
    => outcome = Return(sent.body.val)

\* a lesson written with blanks, after text with a "}" and before text with a
\* "{", was returned
C1_Witness ==
    /\ outcome.kind = "return"
    /\ sent.body.kind = "full" /\ sent.body.sp
    /\ Len(sent.prefix) = MaxAffix /\ ~NoSym(sent.prefix, "}")
    /\ Len(sent.suffix) = MaxAffix /\ ~NoSym(sent.suffix, "{")

\* C2: a text without "{" or without "}" ends in the "no JSON structure"
\* ValueError and in nothing else: no value returned, no parse diagnostics.
C2_NoJsonStructure ==
    (Called /\ (NoSym(text, "{") \/ NoSym(text, "}")))
    => outcome = Raise("ValueError", NoJsonMsg, <<>>)

\* the error was raised for a text that has a "{" and no "}"
C2_Witness ==
    /\ outcome.kind = "raise" /\ outcome.msg = NoJsonMsg
    /\ ~NoSym(text, "{") /\ NoSym(text, "}")

\* C3: when the text from the first "{" to the last "}" parses as an object
\* that lacks a required key, the call ends in the "missing required keys"
\* ValueError, not in a parse error and not in the no-JSON-structure error.
C3_MissingKeys ==
    (Called /\ HasBoth(text) /\ json_loads(Bracketed(text)).ok
        /\ \E k \in RequiredKeySet : k \notin DOMAIN json_loads(Bracketed(text)).val.v)
    => outcome = Raise("ValueError", MissingKeysMsg, <<>>)

\* the error was raised for prose followed by an object that has a title only
C3_Witness ==
    /\ outcome.kind = "raise" /\ outcome.msg = MissingKeysMsg
    /\ sent.body.kind = "partial"
    /\ DOMAIN sent.body.val.v = {Key("title")}
    /\ sent.prefix # <<>> /\ NoSym(sent.prefix, "{")

\* C4: when the text has a "{" and a "}" and the text from the first "{" to
\* the last "}" is not valid JSON, the call ends in json.JSONDecodeError after
\* showing exactly that substring with st.code.
C4_ParseError ==
    (Called /\ HasBoth(text) /\ ~json_loads(Bracketed(text)).ok)
    => /\ outcome.kind = "raise" /\ outcome.exc = "JSONDecodeError"
       /\ \E i \in 1..Len(outcome.shown) : outcome.shown[i].fn = "code"
       /\ \A i \in 1..Len(outcome.shown) :
            outcome.shown[i].fn = "code" => outcome.shown[i].arg = Bracketed(text)

\* two separate blocks with prose between them, after some other text, ended
\* in the parse error
C4_Witness ==
    /\ outcome.kind = "raise" /\ outcome.exc = "JSONDecodeError"
    /\ sent.body.kind = "malformed" /\ sent.body.n = 1
    /\ sent.prefix # <<>> /\ NoSym(sent.prefix, "{") /\ NoSym(sent.suffix, "}")

\* a script run in which generate_lesson was called
GenerateCalled == run.action = "generate" /\ widgets.api_key # <<>>

Shows(shown, fn, first) ==
    \E i \in 1..Len(shown) : shown[i].fn = fn /\ shown[i].arg[1] = first

\* C5: no exception leaves generate_lesson; when it produces no lesson it
\* returns None and has shown the error.
C5_NeverRaises ==
    GenerateCalled =>
        /\ run.escaped = ""
        /\ \/ truthy(run.result)
           \/ /\ run.result = None
              /\ run.error # ""
              /\ Shows(run.shown, "error", "Error details:")

\* generate_lesson caught an exception and returned None
C5_Witness ==
    /\ GenerateCalled
    /\ run.error # "" /\ run.result = None
    /\ Shows(run.shown, "code", "No response received")

\* C6 as stated: when the service answers both requests and the lesson answer
\* holds an object with all six required keys, the generate action returns
\* that lesson, makes it the current lesson, and resets the selected answer
\* and the reflection text.
C6_Original ==
    (GenerateCalled /\ service.topic.ok /\ service.lesson.kind = "full")
    => /\ run.result = service.lesson.val
       /\ session.current_lesson = service.lesson.val
       /\ session.selected_answer = None
       /\ session.reflection_text = <<>>

\* C7: a generate action that fails leaves the current lesson, the selected
\* answer and the reflection text as they were.
C7_FailureKeepsSession ==
    [][(run'.action = "generate" /\ (run'.error # "" \/ run'.escaped # ""))
        => /\ session'.current_lesson = session.current_lesson
           /\ session'.selected_answer = session.selected_answer
           /\ session'.reflection_text = session.reflection_text]_vars

\* a generate action has failed with the key kept in session state
C7_Witness ==
    /\ run.action = "generate" /\ run.error # ""
    /\ session.api_key # <<>>
    /\ session.current_lesson = None

\* the answer index of a lesson is an integer within its options
ValidAnswerIndex(lesson) ==
    /\ lesson.t = "obj" /\ Key("exercise") \in DOMAIN lesson.v
    /\ LET ex == lesson.v[Key("exercise")]
       IN  /\ ex.t = "obj"
           /\ {Key("options"), Key("correctAnswer")} \subseteq DOMAIN ex.v
           /\ ex.v[Key("correctAnswer")].t = "num"
           /\ ex.v[Key("options")].t = "arr"
           /\ 0 <= ex.v[Key("correctAnswer")].v
           /\ ex.v[Key("correctAnswer")].v < Len(ex.v[Key("options")].v)

NoLessonEver ==
    /\ session.current_lesson = None
    /\ session.selected_answer = None
    /\ run.requests = <<>>
    /\ run.view # "lesson"

====
